---- MODULE Spec2Model ----
(***************************************************************************)
(* Model of goptuna-libffm: a pool of workers, each calling                *)
(* study.Optimize(objective, n), where objective launches the ffm-train    *)
(* evaluator, reads the JSON record it leaves at a per-trial scratch path  *)
(* and returns the score.  The repository holds three generations of the   *)
(* program:                                                                *)
(*   "errgroup"        src/main.go:1-133    errgroup pool, Run error       *)
(*                                          ignored                        *)
(*   "errgroupStrict"  src/main.go:135-270  errgroup pool, Run error and   *)
(*                                          SetUserAttr error returned     *)
(*   "signal"          src/main.go:272-427 and src/unnamed/part_000:       *)
(*                     WaitGroup pool, signal listener, CommandContext     *)
(* A behaviour of the model is one run of one of them (variant is chosen   *)
(* in Init and never changes).                                             *)
(*                                                                         *)
(* Library semantics used (goptuna, context, os/exec, os/signal, errgroup) *)
(* are stated where they are modelled.                                     *)
(***************************************************************************)
EXTENDS Integers, Sequences, FiniteSets, TLC

\* ---------------------------------------------------------------- bounds
\* Total trial budget of the signal variant (1000 in the source, scaled).
Budget == 3
\* Per-worker evaluateMax of the errgroup variants (100 in the source, scaled).
OptimizeMax == 2
\* Largest worker count considered (runtime.NumCPU()-1 in the source).
MaxWorkers == 2
\* Number of termination signals the environment may deliver in one run.
MaxSignals == 2
\* Scratch paths of trial numbers below MaxStale may hold a record left by
\* an earlier run when this run starts.
MaxStale == 1

Variants == {"errgroup", "errgroupStrict", "signal"}

VARIABLES
    variant,   \* which generation of the program runs
    W,         \* concurrency (number of workers)
    mainpc,    \* position of func main
    crash,     \* how the process died abnormally, "none" if it has not
    report,    \* what the aggregation step reported
    ctxDone,   \* the shared context has been cancelled
    egErr,     \* errgroup: a worker function has returned an error
    sigbuf,    \* number of signals buffered in sigch (capacity 1)
    sigClosed, \* sigch has been closed
    nsig,      \* signals delivered by the environment so far
    lpc,       \* position of the signal-listener goroutine
    wpc,       \* position of each worker inside study.Optimize
    cnt,       \* evaluateCnt of each worker's Optimize call
    cur,       \* trial number of each worker's current trial
    proc,      \* state of each worker's evaluator process (cmd)
    res,       \* what objective returned to runTrial
    trials,    \* storage: the trials of the study, by trial number + 1
    writing,   \* storage: the workers holding a database connection
    files      \* file system: content at each scratch path

vars == <<variant, W, mainpc, crash, report, ctxDone, egErr, sigbuf, sigClosed,
          nsig, lpc, wpc, cnt, cur, proc, res, trials, writing, files>>

\* ------------------------------------------------------------ file system
\* Trial numbers (and so scratch paths) a run can use.
TrialNums == 0..(Budget + MaxWorkers * (OptimizeMax + 1))

\* by: the trial number whose evaluator process wrote the content,
\*     -1 for content left by an earlier run, -2 when there is no file.
Absent == [kind |-> "absent", iter |-> 0, score |-> 0, by |-> -2]
StaleRecord == [kind |-> "record", iter |-> 1, score |-> 1, by |-> -1]
\* The path of a trial that has been recorded: no longer read by anyone.
Untracked == [kind |-> "untracked", iter |-> 0, score |-> 0, by |-> -2]

\* A path that does not depend on the trial number.
getMetaPathFixed(trialNumber) == <<"./data/optuna/ffm-meta-", 0, ".json">>

\* fmt.Sprintf("./data/optuna/ffm-meta-%d.json", trialNumber): the text
\* before the number, the number, the text after it.
getMetaPath(trialNumber) == <<"./data/optuna/ffm-meta-", trialNumber, ".json">>

\* The scratch paths a run can use.
Paths == {getMetaPath(n) : n \in TrialNums}

\* jsonMetaPath of worker w's current trial, and the content at it.
jsonMetaPath(w) == getMetaPath(cur[w])
ScratchFile(w) == files[jsonMetaPath(w)]

\* What the evaluator process of trial n can leave at its --json-meta path:
\* a record with best_iteration and best_va_loss, or unparsable text.
Written(n) ==
    {[kind |-> "record", iter |-> i, score |-> s, by |-> n] : i \in {0, 1}, s \in {0, 1}}
        \cup {[kind |-> "malformed", iter |-> 0, score |-> 0, by |-> n]}

\* ---------------------------------------------------------------- storage
NoNumber == -1
NewTrial == [state |-> "Running", hasValue |-> FALSE, value |-> 0, attr |-> -1]
Trial(n) == trials[n + 1]
Numbers == {k - 1 : k \in DOMAIN trials}

Complete == {n \in Numbers : Trial(n).state = "Complete"}
Failed == {n \in Numbers : Trial(n).state = "Fail"}
Attempted == Cardinality(Complete) + Cardinality(Failed)

\* ---------------------------------------------------------------- workers
Workers == 1..W

\* A division that rounds up instead of down.
EvaluateMaxRoundedUp ==
    IF variant = "signal" THEN (Budget + W - 1) \div W ELSE OptimizeMax

\* The evaluateMax argument of study.Optimize.
EvaluateMax ==
    IF variant = "signal" THEN Budget \div W ELSE OptimizeMax

\* The budget the run is configured with, summed over the workers' calls.
ConfiguredBudget ==
    IF variant = "signal" THEN Budget ELSE W * OptimizeMax

Ended == {"nostart", "exit0", "exit1", "killed"}

Ok(v) == [ok |-> TRUE, value |-> v, err |-> "none"]
Err(e) == [ok |-> FALSE, value |-> -1, err |-> e]
NoRes == [ok |-> FALSE, value |-> 0, err |-> "unset"]

\* A sentinel test that rejects a record as soon as one field is zero.
IsAnyZero(f) == f.iter = 0 \/ f.score = 0

\* The all-zero sentinel test of objective.
IsAllZero(f) == f.iter = 0 /\ f.score = 0

\* cmd.Run() returned a non-nil error: the process could not be started,
\* exited non-zero or was killed.
RunError(p) == p # "exit0"

\* objective, from cmd.Run() returning to its return statement: v the
\* variant, p how the process ended, f the content at jsonMetaPath, attrOK
\* whether trial.SetUserAttr succeeded.
ObjectiveResult(v, p, f, attrOK) ==
    IF v = "errgroupStrict" /\ RunError(p) THEN Err("run")
    ELSE IF f.kind = "absent" THEN Err("read")
    ELSE IF f.kind = "malformed" THEN Err("parse")
    ELSE IF IsAllZero(f) THEN Err("zero")
    ELSE IF v = "errgroupStrict" /\ ~attrOK THEN Err("attr")
    ELSE Ok(f.score)

\* objective reached trial.SetUserAttr("best_iteration", ...) and the write
\* was stored.
AttrStored(v, p, f, attrOK) ==
    /\ ~(v = "errgroupStrict" /\ RunError(p))
    /\ f.kind = "record"
    /\ ~IsAllZero(f)
    /\ attrOK

\* ------------------------------------------------------------------- Init
Init ==
    /\ variant \in Variants
    /\ W \in 1..MaxWorkers
    /\ mainpc = "wait"
    /\ crash = "none"
    /\ report = "none"
    /\ ctxDone = FALSE
    /\ egErr = FALSE
    /\ sigbuf = 0
    /\ sigClosed = FALSE
    /\ nsig = 0
    /\ lpc = IF variant = "signal" THEN "recv" ELSE "absent"
    /\ wpc = [w \in Workers |-> "loop"]
    /\ cnt = [w \in Workers |-> 0]
    /\ cur = [w \in Workers |-> NoNumber]
    /\ proc = [w \in Workers |-> "none"]
    /\ res = [w \in Workers |-> NoRes]
    /\ trials = <<>>
    /\ writing = {}
    /\ \E S \in SUBSET (0..(MaxStale - 1)) :
          files = [p \in Paths |->
                      IF p \in {getMetaPath(n) : n \in S} THEN StaleRecord ELSE Absent]

Alive == mainpc # "exited"


config == <<variant, W>>
mainVars == <<mainpc, crash, report>>
sigVars == <<sigbuf, sigClosed, nsig, lpc>>

\* ------------------------------------------------- study.Optimize (worker)
\* A pool in which every variant hands the worker's error to a group that
\* cancels the shared context.
WorkerReturnsCancelling(w, failed) ==
    /\ wpc' = [wpc EXCEPT ![w] = "done"]
    /\ IF failed /\ ~egErr
          THEN egErr' = TRUE /\ ctxDone' = TRUE
          ELSE UNCHANGED <<egErr, ctxDone>>

\* The worker's function returns; failed says whether Optimize returned a
\* non-nil error.  errgroup.Group.Go records the first error and cancels the
\* group's context; the signal variant only logs it.
WorkerReturns(w, failed) ==
    /\ wpc' = [wpc EXCEPT ![w] = "done"]
    /\ IF variant # "signal" /\ failed /\ ~egErr
          THEN egErr' = TRUE /\ ctxDone' = TRUE
          ELSE UNCHANGED <<egErr, ctxDone>>

\* db.DB().SetMaxOpenConns(1) where main calls it; database/sql's default, 0,
\* puts no limit on the open connections.
MaxOpenConns == IF variant = "errgroupStrict" THEN 0 ELSE 1

\* objective of worker w is about to call trial.SetUserAttr: cmd.Run() has
\* returned and the record passes every check before the call.
WritesAttr(w) ==
    /\ wpc[w] = "run"
    /\ proc[w] \in Ended
    /\ ObjectiveResult(variant, proc[w], ScratchFile(w), TRUE).ok

\* The next step of worker w writes to storage: CreateNewTrial and the
\* suggested parameters, the user attribute, or the trial's value and state.
WritesNext(w) == wpc[w] \in {"create", "record"} \/ WritesAttr(w)

\* The write of worker w takes a connection from the pool of database/sql;
\* with MaxOpenConns = 1 it waits until the connection is free.
Connect(w) ==
    /\ Alive
    /\ WritesNext(w)
    /\ w \notin writing
    /\ MaxOpenConns = 1 => writing = {}
    /\ writing' = writing \cup {w}
    /\ UNCHANGED <<config, mainVars, sigVars, ctxDone, egErr, wpc, cnt, cur,
                   proc, res, trials, files>>

\* Top of Optimize's loop: stop when evaluateCnt has reached evaluateMax,
\* otherwise count the evaluation and return ctx.Err() if the study's
\* context is done.
Loop(w) ==
    /\ Alive
    /\ wpc[w] = "loop"
    /\ IF cnt[w] >= EvaluateMax
          THEN /\ WorkerReturns(w, FALSE)
               /\ cnt' = cnt
          ELSE /\ cnt' = [cnt EXCEPT ![w] = cnt[w] + 1]
               /\ IF ctxDone
                     THEN WorkerReturns(w, TRUE)
                     ELSE /\ wpc' = [wpc EXCEPT ![w] = "create"]
                          /\ UNCHANGED <<egErr, ctxDone>>
    /\ UNCHANGED <<config, writing, mainVars, sigVars, cur, proc, res, trials, files>>

\* runTrial creates the trial in storage (its number is the next one), then
\* objective asks for its parameters and starts the evaluator.  A suggestion
\* may fail; exec's Start may fail (binary missing); with CommandContext,
\* Start fails at once when the context is already done.
StartTrial(w) ==
    /\ Alive
    /\ wpc[w] = "create"
    /\ w \in writing
    /\ writing' = writing \ {w}
    /\ Len(trials) \in TrialNums
    /\ trials' = Append(trials, NewTrial)
    /\ cur' = [cur EXCEPT ![w] = Len(trials)]
    /\ \E sugOK \in BOOLEAN, started \in BOOLEAN :
          IF ~sugOK
             THEN /\ res' = [res EXCEPT ![w] = Err("suggest")]
                  /\ proc' = [proc EXCEPT ![w] = "none"]
                  /\ wpc' = [wpc EXCEPT ![w] = "record"]
             ELSE /\ res' = [res EXCEPT ![w] = NoRes]
                  /\ proc' = [proc EXCEPT ![w] =
                                IF started /\ ~(variant = "signal" /\ ctxDone)
                                   THEN "running" ELSE "nostart"]
                  /\ wpc' = [wpc EXCEPT ![w] = "run"]
    /\ UNCHANGED <<config, mainVars, sigVars, ctxDone, egErr, cnt, files>>

\* The evaluator writes its record (once) to its --json-meta path.
ProcWrite(w) ==
    /\ Alive
    /\ proc[w] = "running"
    /\ ScratchFile(w).by # cur[w]
    /\ \E c \in Written(cur[w]) : files' = [files EXCEPT ![jsonMetaPath(w)] = c]
    /\ UNCHANGED <<config, writing, mainVars, sigVars, ctxDone, egErr, wpc, cnt, cur,
                   proc, res, trials>>

\* The evaluator exits by itself, with status 0 or 1 (early stopping).
ProcExit(w) ==
    /\ Alive
    /\ proc[w] = "running"
    /\ \E code \in {"exit0", "exit1"} : proc' = [proc EXCEPT ![w] = code]
    /\ UNCHANGED <<config, writing, mainVars, sigVars, ctxDone, egErr, wpc, cnt, cur,
                   res, trials, files>>

\* A command started with exec.Command: the context never reaches it.
KillNever(w) == FALSE /\ UNCHANGED vars

\* exec.CommandContext kills the process once the context is done.
Kill(w) ==
    /\ Alive
    /\ variant = "signal"
    /\ ctxDone
    /\ proc[w] = "running"
    /\ proc' = [proc EXCEPT ![w] = "killed"]
    /\ UNCHANGED <<config, writing, mainVars, sigVars, ctxDone, egErr, wpc, cnt, cur,
                   res, trials, files>>

\* cmd.Run() returns and objective runs to its return statement.
Evaluate(w) ==
    /\ Alive
    /\ wpc[w] = "run"
    /\ proc[w] \in Ended
    /\ WritesAttr(w) => w \in writing
    /\ writing' = writing \ {w}
    /\ \E attrOK \in BOOLEAN :
          /\ res' = [res EXCEPT ![w] =
                        ObjectiveResult(variant, proc[w], ScratchFile(w), attrOK)]
          /\ trials' = IF AttrStored(variant, proc[w], ScratchFile(w), attrOK)
                          THEN [trials EXCEPT ![cur[w] + 1].attr = ScratchFile(w).iter]
                          ELSE trials
    /\ wpc' = [wpc EXCEPT ![w] = "record"]
    /\ UNCHANGED <<config, mainVars, sigVars, ctxDone, egErr, cnt, cur, proc,
                   files>>

\* A runTrial that drops objective's error and stores the returned number.
RecordedIgnoringError(t, r) ==
    [t EXCEPT !.state = "Complete", !.hasValue = TRUE, !.value = r.value]

\* The trial as runTrial stores it for objective's result r.
Recorded(t, r) ==
    IF r.ok
       THEN [t EXCEPT !.state = "Complete", !.hasValue = TRUE, !.value = r.value]
       ELSE [t EXCEPT !.state = "Fail"]

\* runTrial stores the outcome; Optimize goes on after a success and returns
\* the objective's error after a failure.  objective's locals (cmd, result)
\* are gone once it has returned, and the trial's scratch path is never
\* opened again (its number is never reused), so the model stops tracking
\* them here.
Record(w) ==
    /\ Alive
    /\ wpc[w] = "record"
    /\ w \in writing
    /\ writing' = writing \ {w}
    /\ trials' = [trials EXCEPT ![cur[w] + 1] = Recorded(@, res[w])]
    /\ IF res[w].ok
          THEN /\ wpc' = [wpc EXCEPT ![w] = "loop"]
               /\ UNCHANGED <<egErr, ctxDone>>
          ELSE WorkerReturns(w, TRUE)
    /\ cur' = [cur EXCEPT ![w] = NoNumber]
    /\ proc' = [proc EXCEPT ![w] = "none"]
    /\ res' = [res EXCEPT ![w] = NoRes]
    /\ files' = [files EXCEPT ![jsonMetaPath(w)] = Untracked]
    /\ UNCHANGED <<config, mainVars, sigVars, cnt>>

\* ------------------------------------------------------- signal handling
\* The environment delivers SIGINT, SIGTERM or SIGQUIT.  signal.Notify was
\* never stopped, so the runtime sends on sigch without blocking: the signal
\* is buffered if there is room, dropped if not, and the send panics if
\* sigch has been closed.
Signal ==
    /\ Alive
    /\ variant = "signal"
    /\ nsig < MaxSignals
    /\ nsig' = nsig + 1
    /\ IF sigClosed
          THEN /\ crash' = "send on closed channel"
               /\ mainpc' = "exited"
               /\ UNCHANGED sigbuf
          ELSE /\ sigbuf' = IF sigbuf = 0 THEN 1 ELSE sigbuf
               /\ UNCHANGED <<crash, mainpc>>
    /\ UNCHANGED <<config, writing, report, ctxDone, egErr, sigClosed, lpc, wpc, cnt,
                   cur, proc, res, trials, files>>

\* The listener goroutine: sig, ok := <-sigch; return if !ok; cancel().
Listener ==
    /\ Alive
    /\ lpc = "recv"
    /\ sigbuf > 0 \/ sigClosed
    /\ IF sigbuf > 0
          THEN /\ sigbuf' = sigbuf - 1
               /\ ctxDone' = TRUE
          ELSE UNCHANGED <<sigbuf, ctxDone>>
    /\ lpc' = "done"
    /\ UNCHANGED <<config, writing, mainVars, egErr, sigClosed, nsig, wpc, cnt, cur,
                   proc, res, trials, files>>

\* ------------------------------------------------------------------ main
\* A join that passes as soon as one worker has returned.
SomeWorkerDone == \E w \in Workers : wpc[w] = "done"

\* Every worker goroutine has returned (wg.Done() / the function given to
\* eg.Go returned).
AllWorkersDone == \A w \in Workers : wpc[w] = "done"

\* wg.Wait() of the signal variant: the listener and every worker called
\* wg.Done().
WaitSignal ==
    /\ mainpc = "wait"
    /\ variant = "signal"
    /\ AllWorkersDone
    /\ lpc = "done"
    /\ mainpc' = "best"
    /\ UNCHANGED <<config, writing, crash, report, ctxDone, egErr, sigVars, wpc, cnt,
                   cur, proc, res, trials, files>>

\* eg.Wait() of the errgroup variants: returns the first error, after which
\* main calls log.Fatal (the process exits, deferred calls do not run).
WaitErrgroup ==
    /\ mainpc = "wait"
    /\ variant # "signal"
    /\ AllWorkersDone
    /\ ctxDone' = TRUE
    /\ IF egErr
          THEN mainpc' = "exited" /\ crash' = "fatal"
          ELSE mainpc' = "best" /\ crash' = crash
    /\ UNCHANGED <<config, writing, report, egErr, sigVars, wpc, cnt, cur, proc, res,
                   trials, files>>

\* study.GetBestValue / GetBestParams and the printing of the result.  With
\* no Complete trial both return an error.  The errgroup variants call
\* logger.Fatal on it.  The signal variant drops it: src/main.go:423-426
\* prints the zero value and the nil map, src/unnamed/part_000:144-147
\* asserts params["lambda"].(float64) on the nil map and panics (main's
\* deferred calls still run).  The two sources of the signal variant differ
\* in nothing else, so which one runs is decided here.
Best ==
    /\ mainpc = "best"
    /\ IF Complete # {}
          THEN /\ report' = "best"
               /\ mainpc' = IF variant = "signal" THEN "close" ELSE "dbclose"
               /\ crash' = crash
          ELSE IF variant = "signal"
                  THEN /\ mainpc' = "close"
                       /\ \E logger \in {"zap", "log"} :
                             IF logger = "zap"
                                THEN report' = "zero" /\ crash' = crash
                                ELSE report' = "none" /\ crash' = "interface conversion"
                  ELSE report' = "none" /\ mainpc' = "exited" /\ crash' = "fatal"
    /\ UNCHANGED <<config, writing, ctxDone, egErr, sigVars, wpc, cnt, cur, proc, res,
                   trials, files>>

\* Deferred calls of main, last registered first: close(sigch), cancel(),
\* db.Close().
CloseSigch ==
    /\ mainpc = "close"
    /\ sigClosed' = TRUE
    /\ mainpc' = "cancel"
    /\ UNCHANGED <<config, writing, crash, report, ctxDone, egErr, sigbuf, nsig, lpc,
                   wpc, cnt, cur, proc, res, trials, files>>

DeferredCancel ==
    /\ mainpc = "cancel"
    /\ ctxDone' = TRUE
    /\ mainpc' = "dbclose"
    /\ UNCHANGED <<config, writing, crash, report, egErr, sigVars, wpc, cnt, cur, proc,
                   res, trials, files>>

DbClose ==
    /\ mainpc = "dbclose"
    /\ mainpc' = "exited"
    /\ UNCHANGED <<config, writing, crash, report, ctxDone, egErr, sigVars, wpc, cnt,
                   cur, proc, res, trials, files>>

\* ------------------------------------------------------------------ Next
WorkerStep(w) ==
    Loop(w) \/ Connect(w) \/ StartTrial(w) \/ Evaluate(w) \/ Record(w)

ProcStep(w) ==
    ProcWrite(w) \/ ProcExit(w) \/ Kill(w)

MainStep ==
    WaitSignal \/ WaitErrgroup \/ Best \/ CloseSigch \/ DeferredCancel \/ DbClose

Next ==
    \/ \E w \in Workers : Loop(w)
    \/ \E w \in Workers : Connect(w)
    \/ \E w \in Workers : StartTrial(w)
    \/ \E w \in Workers : Evaluate(w)
    \/ \E w \in Workers : Record(w)
    \/ \E w \in Workers : ProcWrite(w)
    \/ \E w \in Workers : ProcExit(w)
    \/ \E w \in Workers : Kill(w)
    \/ Listener
    \/ Signal
    \/ WaitSignal
    \/ WaitErrgroup
    \/ Best
    \/ CloseSigch
    \/ DeferredCancel
    \/ DbClose

Spec == Init /\ [][Next]_vars

\* The Go scheduler runs every runnable goroutine, and an evaluator that was
\* started ends; nothing obliges the environment to send a signal.
FairSpec ==
    /\ Spec
    /\ \A w \in 1..MaxWorkers : WF_vars(w \in Workers /\ WorkerStep(w))
    /\ \A w \in 1..MaxWorkers : WF_vars(w \in Workers /\ ProcStep(w))
    /\ WF_vars(Listener)
    /\ WF_vars(MainStep)

\* The same scheduling, but an evaluator need never write or exit by itself:
\* only the kill that exec.CommandContext sends once the context is done is
\* sure to happen.
CancelFairSpec ==
    /\ Spec
    /\ \A w \in 1..MaxWorkers : WF_vars(w \in Workers /\ WorkerStep(w))
    /\ \A w \in 1..MaxWorkers : WF_vars(w \in Workers /\ Kill(w))
    /\ WF_vars(Listener)
    /\ WF_vars(MainStep)


\* ============================================================ properties
\* The worker is about to store the outcome of its trial and does so in
\* this step.
Records(w) == wpc[w] = "record" /\ wpc'[w] # "record"

\* The scratch file of w's trial holds a parsable record.
HasRecord(w) == ScratchFile(w).kind = "record"

RECURSIVE SumCnt(_)
SumCnt(n) == IF n = 0 THEN 0 ELSE cnt[n] + SumCnt(n - 1)

\* C1: in every reachable state the number of trials attempted (Complete
\* plus Failed) is at most the configured total budget, for every worker
\* count and interleaving.
C1_AttemptedWithinBudget == Attempted <= ConfiguredBudget

\* Several workers have used up the whole of what the division gives them.
C1_Witness ==
    /\ variant = "signal"
    /\ W > 1
    /\ AllWorkersDone
    /\ Attempted = W * (Budget \div W)

\* C2: when no cancellation occurred, at the moment all workers have exited
\* the number of attempted trials equals the budget exactly.
C2_BudgetMetExactly ==
    (variant = "signal" /\ ~ctxDone /\ AllWorkersDone) => Attempted = Budget

\* C3: a trial whose evaluator was killed because the token fired is never
\* stored as Complete or Failed: it stays as runTrial created it.
C3_KilledTrialNotRecorded ==
    [][\A w \in Workers :
          (variant = "signal" /\ proc[w] = "killed")
              => trials'[cur[w] + 1].state = "Running"]_vars

\* C4: once cancellation has fired no new trial is started (so none started
\* after it is ever stored), and main passes the join only when every worker
\* has exited and no evaluator process is running.
C4_NoTrialAfterCancel ==
    [][variant = "signal" =>
          /\ ctxDone => Len(trials') = Len(trials)
          /\ (mainpc = "wait" /\ mainpc' = "best")
                => (AllWorkersDone /\ \A w \in Workers : proc[w] # "running")]_vars

\* C5: if no signal is ever delivered, then once every worker has exited the
\* run passes the join, aggregates and terminates.
C5_JoinPassesWithoutSignal ==
    (variant = "signal" /\ AllWorkersDone) ~> (nsig > 0 \/ mainpc = "exited")

\* C6: a signal delivered at any point before the process has exited causes
\* no panic.
C6_NoPanicOnSignal == crash # "send on closed channel"

\* C7: a trial stored as Complete gets the score of the record its own
\* evaluator process wrote during this evaluation.
C7_ScoreFromOwnProcess ==
    [][\A w \in Workers :
          (Records(w) /\ trials'[cur[w] + 1].state = "Complete")
              => /\ HasRecord(w)
                 /\ ScratchFile(w).by = cur[w]
                 /\ trials'[cur[w] + 1].value = ScratchFile(w).score]_vars

\* The evaluation reached the sentinel test and nothing after it failed.
SentinelDecides(w) == res[w].err \in {"none", "zero"}

\* C8: an all-zero record makes the trial Failed with no value; a record in
\* which only one of the two fields is 0 is scored with its best_va_loss.
C8_AllZeroSentinel ==
    [][\A w \in Workers :
          (Records(w) /\ HasRecord(w)) =>
              LET f == ScratchFile(w)
                  t == trials'[cur[w] + 1]
              IN /\ (f.iter = 0 /\ f.score = 0)
                        => (t.state = "Fail" /\ ~t.hasValue)
                 /\ (SentinelDecides(w) /\ (f.iter = 0) # (f.score = 0))
                        => (t.state = "Complete" /\ t.hasValue /\ t.value = f.score)]_vars

\* A worker is about to store the outcome of an all-zero record written by
\* its own evaluator, and another one that of a record with one zero field.
C8_Witness ==
    \E w \in Workers :
        /\ wpc[w] = "record"
        /\ HasRecord(w)
        /\ ScratchFile(w).by = cur[w]
        /\ ScratchFile(w).iter = 0
        /\ ScratchFile(w).score = 0
        /\ ~res[w].ok
        /\ \E n \in Complete : Trial(n).value = 0

\* C9: an evaluator that exits non-zero after writing a valid record that is
\* not all-zero gives a Complete trial with the record's score.
C9_NonZeroExitStillComplete ==
    [][\A w \in Workers :
          (/\ Records(w)
           /\ proc[w] = "exit1"
           /\ HasRecord(w)
           /\ ScratchFile(w).by = cur[w]
           /\ ~IsAllZero(ScratchFile(w)))
              => /\ trials'[cur[w] + 1].state = "Complete"
                 /\ trials'[cur[w] + 1].value = ScratchFile(w).score]_vars

\* C10: when the scratch file is absent after the evaluator has ended, the
\* trial is stored as Failed with no value, and the attempt stays counted in
\* the worker's evaluateCnt.
C10_AbsentFileFails ==
    [][/\ \A w \in Workers :
             (Records(w) /\ ScratchFile(w).kind = "absent")
                 => /\ trials'[cur[w] + 1].state = "Fail"
                    /\ ~trials'[cur[w] + 1].hasValue
                    /\ cnt'[w] = cnt[w]
                    /\ cnt[w] >= 1
       /\ Len(trials') <= SumCnt(W)']_vars

\* The evaluator ran to its end without cancellation and left no file; the
\* objective has returned its error.
C10_Witness ==
    \E w \in Workers :
        /\ wpc[w] = "record"
        /\ ~ctxDone
        /\ proc[w] \in {"exit0", "exit1"}
        /\ ScratchFile(w).kind = "absent"
        /\ res[w].err \in {"read", "run"}
        /\ cnt[w] >= 1

\* Worker w stores a failed trial in this step; nothing else of the run
\* changes: the context, main and the sibling workers with their evaluators
\* stay as they are.
FailureContained(w) ==
    (Records(w) /\ ~res[w].ok)
        => /\ ctxDone' = ctxDone
           /\ mainpc' = mainpc
           /\ crash' = crash
           /\ \A v \in Workers \ {w} : wpc'[v] = wpc[v] /\ proc'[v] = proc[v]

\* C11 (as stated): a failure of one trial in one worker never stops,
\* cancels or aborts any other worker, and the process is not exited
\* because of it, in any variant.
C11_FailureNeverPropagates ==
    [][/\ \A w \in Workers : FailureContained(w)
       /\ (mainpc = "wait" /\ mainpc' = "exited") => crash' # "fatal"]_vars

\* C11 (amended): in the WaitGroup (signal) variant a failed trial changes
\* nothing but its own worker, and the context is cancelled only after a
\* signal was delivered.
C11_FailureContainedInSignalVariant ==
    [][variant = "signal" =>
          /\ \A w \in Workers : FailureContained(w)
          /\ ctxDone' => nsig' > 0]_vars

\* One trial has failed, the context is live and a sibling has passed the
\* top of its loop and is about to start a trial.
C11_Witness ==
    /\ variant = "signal"
    /\ Failed # {}
    /\ ~ctxDone
    /\ \E w \in Workers : wpc[w] = "create"

\* Worker w has a trial in flight: created and not yet stored.
InFlight(w) == cur[w] # NoNumber

\* C12: the trial numbers of evaluations in flight are pairwise distinct, so
\* are their scratch paths, and the content at the path of a trial in flight
\* was never written by the evaluator of another trial of this run.
C12_DistinctScratchPaths ==
    /\ \A v, w \in Workers :
          (v # w /\ InFlight(v) /\ InFlight(w))
              => /\ cur[v] # cur[w]
                 /\ jsonMetaPath(v) # jsonMetaPath(w)
    /\ \A w \in Workers :
          InFlight(w) => ScratchFile(w).by \in {cur[w], -1, -2}

\* Two evaluators run at once and both have written their records.
C12_Witness ==
    \E v, w \in Workers :
        /\ v # w
        /\ proc[v] = "running" /\ ScratchFile(v).by = cur[v]
        /\ proc[w] = "running" /\ ScratchFile(w).by = cur[w]

\* C13: when the run ends with no Complete trial, result aggregation neither
\* reports a best value as if one existed (the zero value and an empty
\* parameter map) nor crashes on the missing parameters.
C13_NoCompleteTrialsReported ==
    Complete = {} => /\ report # "zero"
                     /\ crash # "interface conversion"

\* C14: in every reachable state of every variant at most one worker is
\* writing to storage.
C14_SingleWriter == Cardinality(writing) <= 1

\* C15: when main is about to read the best value and parameters, every
\* worker has returned from Optimize and no worker holds a storage
\* connection, whether the budgets ran out or the context was cancelled.
C15_AggregationAfterWorkers ==
    mainpc = "best" =>
        /\ \A w \in Workers : wpc[w] = "done" /\ cur[w] = NoNumber
        /\ writing = {}

\* Aggregation is reached on the cancelled path with two workers that both
\* wrote trials.
C15_Witness ==
    /\ mainpc = "best"
    /\ W = 2
    /\ ctxDone
    /\ Complete # {}
    /\ Failed # {}

\* C16: when runTrial stores as Failed a trial whose evaluation ended in a
\* process error or malformed output, and the worker has budget left and the
\* context is not cancelled, the worker goes back to the top of its loop.
C16_WorkerContinuesAfterFailure ==
    [][\A w \in Workers :
          (/\ Records(w)
           /\ res[w].err \in {"run", "read", "parse", "zero"}
           /\ cnt[w] < EvaluateMax
           /\ ~ctxDone /\ ~ctxDone')
              => wpc'[w] = "loop"]_vars

\* C17: no trial is stored Complete while the write of its best-iteration
\* attribute was lost.
C17_NoCompleteWithLostAttr ==
    \A n \in Complete : Trial(n).attr # -1

\* C18: once a termination signal has been delivered to the WaitGroup
\* program, eventually the context is cancelled, no evaluator process is
\* running, every worker has returned and main has passed the join and
\* terminated.
C18_SignalUnwindsRun ==
    (variant = "signal" /\ nsig > 0 /\ mainpc = "wait")
        ~> (/\ mainpc = "exited"
            /\ ctxDone
            /\ \A w \in Workers : wpc[w] = "done" /\ proc[w] # "running")

\* A signal arrived while two evaluators were running and the run is
\* unwinding: the listener has cancelled the context, one worker has
\* returned and the evaluator of the other has been killed.
C18_Witness ==
    /\ variant = "signal"
    /\ nsig > 0
    /\ lpc = "done"
    /\ ctxDone
    /\ mainpc = "wait"
    /\ \E v, w \in Workers : wpc[v] = "done" /\ proc[w] = "killed"

====
